---------------------------- MODULE Spec2Model ----------------------------
(***************************************************************************)
(* Verification model of the staged cache store (tomox.BatchDatabase) and  *)
(* of the block validator (core.BlockValidator).                           *)
(*                                                                         *)
(* BatchDatabase keeps a persistent store (db), a hot LRU cache of decoded *)
(* records (cacheItems), one LRU overlay per block hash (dryRunCaches) and *)
(* the creation order of the overlays (recentCaches).  Records are Go      *)
(* pointers: an overlay entry holds a reference into `heap`, NilRef being   *)
(* the nil pointer that marks a tombstone.                                 *)
(***************************************************************************)
EXTENDS Integers, Sequences, FiniteSets, TLC

\* ------------------------------------------------------------ bounds ----

\* db.cacheLimit: the capacity of the hot cache and of every overlay.  The
\* constructor takes it from its caller (defaultCacheLimit when <= 0).
CacheLimit == 1

\* Number of transactions in a validated block.
MaxTxs == 2

\* Number of transactions in all the blocks validated.
MaxOrders == 3

\* ------------------------------------------------- program constants ----

\* dryrunCacheLimit, scaled down from 200.
DryrunCacheLimit == 2

\* ------------------------------------------------------------ values ----

\* Byte keys.  K1 and K2 are ordinary keys; NilKey is the nil / zero-length
\* key and EmptyKeyBytes the preallocated value of EmptyKey().
K1 == <<1>>
K2 == <<171>>
NilKey == <<>>
EmptyKeyBytes == <<0>>
Keys == {K1, K2}
ReadKeys == Keys \cup {EmptyKeyBytes}

\* Block hashes.  ZeroHash is common.Hash{}; M1DryrunCacheHash is the miner
\* overlay hash.
ZeroHash == "0x0"
M1DryrunCacheHash == "m1"
Hashes == {"h1", "h2", "h3", "h4", M1DryrunCacheHash}

\* Record variants and record values.  A record value is [variant, data].
Variants == {"Item", "OrderItem", "OrderListItem", "OrderTreeItem", "OrderBookItem"}
Rec(v, d) == [variant |-> v, data |-> d]
NilVal == Rec("nil", 0)
FreeCell == Rec("free", 0)
NoWrite == Rec("none", 0)
Data == {1, 2}
\* The records callers write in the model.
InVals == {Rec("OrderItem", 1), Rec("Item", 2)}
\* The variants callers expect when they read.
ReadVariants == {"OrderItem", "Item"}

\* Record objects live in heap cells.  A cell is named after the overlay
\* slot (block hash, cache key) its object was created for; NilRef is the
\* nil pointer.
NilRef == <<>>

\* Error outcomes.
OK == "ok"
ErrNotFound == "NotFound"
ErrCorrupt == "Corrupt"
ErrNoSuchOverlay == "NoSuchOverlay"
ErrIo == "IoError"
ErrEncode == "EncodeError"
ErrInherit == "InheritError"
ErrNoParent == "NoParentCache"

\* ------------------------------------------------------------- codec ----

VariantTag(v) ==
    CASE v = "Item" -> 1
      [] v = "OrderItem" -> 2
      [] v = "OrderListItem" -> 3
      [] v = "OrderTreeItem" -> 4
      [] v = "OrderBookItem" -> 5
      [] OTHER -> 0

\* EncodeBytesItem: the canonical bytes of a record.
EncodeBytesItem(val) == <<VariantTag(val.variant), val.data>>

\* The bytes of an absent store entry.
NoBytes == <<>>

\* DecodeBytesItem(b, val): decodes into the variant the caller supplies;
\* fails on a length or tag mismatch.
DecodeOk(b, variant) == Len(b) = 2 /\ b[1] = VariantTag(variant)
DecodeBytesItem(b, variant) == Rec(variant, b[2])

\* hex.EncodeToString: two hex digits per byte.
HexEncode(key) ==
    [i \in 1..(2 * Len(key)) |->
        IF i % 2 = 1 THEN key[(i + 1) \div 2] \div 16 ELSE key[i \div 2] % 16]

\* hex.DecodeString: fails on an odd number of digits.
HexDecodeOk(s) == Len(s) % 2 = 0
HexDecode(s) == [i \in 1..(Len(s) \div 2) |-> s[2 * i - 1] * 16 + s[2 * i]]

\* --------------------------------------------------------- lru.Cache ----
\* A cache is the sequence of its entries [key, val], oldest first.

LruHas(c, k) == \E i \in 1..Len(c) : c[i].key = k
LruIdx(c, k) == CHOOSE i \in 1..Len(c) : c[i].key = k
LruVal(c, k) == c[LruIdx(c, k)].val
LruWithout(c, k) == SelectSeq(c, LAMBDA e : e.key # k)
\* Get / Add make the entry the most recently used one.
LruTouch(c, k) == IF LruHas(c, k) THEN Append(LruWithout(c, k), c[LruIdx(c, k)]) ELSE c
LruAdd(c, k, v, cap) ==
    LET added == Append(LruWithout(c, k), [key |-> k, val |-> v])
    IN  IF Len(added) > cap THEN Tail(added) ELSE added
LruKeys(c) == [i \in 1..Len(c) |-> c[i].key]
LruKeySet(c) == {c[i].key : i \in 1..Len(c)}
LruPurge == <<>>

\* ------------------------------------------------------------- state ----

VARIABLES
    db,            \* persistent store: key -> bytes (NoBytes: absent)
    cacheItems,    \* hot cache: lru of [key |-> cacheKey, val |-> record]
    dryRunCaches,  \* block hash -> overlay: lru of [key |-> cacheKey, val |-> ref]
    recentCaches,  \* sequence of the block hashes whose overlay was created
    heap,          \* ref -> the record object stored there (FreeCell: none)
    written,       \* history: hash -> key -> last staged write since creation
    ret            \* the last call and what it returned

dbVars == <<db, cacheItems, dryRunCaches, recentCaches, heap, written, ret>>

\* The state of the matching engine service the block validator replays on.
VARIABLES
    ob,               \* order book: hashes of the orders applied to it
    processedHashes,  \* order hashes marked as processed
    tradeSink,        \* order hashes whose trades were stored
    txSeq,            \* transactions validated so far (names the order hashes)
    vret              \* the last ValidateBody call and what it returned

vbVars == <<ob, processedHashes, tradeSink, txSeq, vret>>

\* The goroutines that are inside InitDryRunMode or SaveDryRunResult, for the
\* specifications that take these calls one locked section at a time.
VARIABLES
    created,    \* history: the registered hashes, in the order InitDryRunMode created them
    initTask,   \* task -> where it is in InitDryRunMode, and its arguments
    saveTask,   \* where the saving goroutine is in SaveDryRunResult, and its batch
    gas         \* the parent block handed to CalcGasLimit and the limit returned

taskVars == <<initTask, saveTask>>
restVars == <<vbVars, taskVars, gas>>

Tasks == {"t1", "t2"}
IdleInit == [pc |-> "idle", hash |-> ZeroHash, parent |-> ZeroHash]
IdleSave == [pc |-> "idle", hash |-> ZeroHash, batch |-> <<>>]
NoGas == [gasLimit |-> 0, gasUsed |-> 0, limit |-> 0, called |-> FALSE]
SeqWithout(s, x) == SelectSeq(s, LAMBDA y : y # x)

Ret(op, key, dryrun, hash, val, err) ==
    [op |-> op, key |-> key, dryrun |-> dryrun, hash |-> hash, val |-> val, err |-> err]
BoolVal(b) == Rec("bool", IF b THEN 1 ELSE 0)

NoWrites == [k \in Keys |-> NoWrite]

\* NewBatchDatabaseWithEncode: empty caches over a store.
InitDB ==
    /\ db = [k \in Keys |-> NoBytes]
    /\ cacheItems = <<>>
    /\ dryRunCaches = [h \in {} |-> <<>>]
    /\ recentCaches = <<>>
    /\ heap = [r \in Hashes \X {HexEncode(k) : k \in Keys} |-> FreeCell]
    /\ written = [h \in Hashes |-> NoWrites]
    /\ ret = Ret("New", NilKey, FALSE, ZeroHash, NilVal, OK)

\* ------------------------------------------------------ heap helpers ----

Deref(r) == IF r = NilRef THEN NilVal ELSE heap[r]
UsedRefs(caches) ==
    UNION {{caches[h][i].val : i \in 1..Len(caches[h])} : h \in DOMAIN caches} \ {NilRef}
\* The cell of the object created for a slot of an overlay.
NewRef(blockHash, cacheKey) == <<blockHash, cacheKey>>
\* Objects no overlay refers to are garbage.
Collect(hp, caches) ==
    [r \in DOMAIN hp |-> IF r \in UsedRefs(caches) THEN hp[r] ELSE FreeCell]

Registered(h) == h \in DOMAIN dryRunCaches
WithCache(caches, h, c) == [x \in DOMAIN caches \cup {h} |-> IF x = h THEN c ELSE caches[x]]
WithoutCache(caches, h) == [x \in DOMAIN caches \ {h} |-> caches[x]]

\* ----------------------------------------------------- BatchDatabase ----

IsEmptyKey(key) == Len(key) = 0 \/ key = EmptyKeyBytes
getCacheKey(key) == HexEncode(key)

\* `dryrunCache, ok := db.dryRunCaches[blockHash]; ok && Len() > 0` and the
\* Get of the key in it.
DryrunHit(key, blockHash) ==
    /\ Registered(blockHash)
    /\ Len(dryRunCaches[blockHash]) > 0
    /\ LruHas(dryRunCaches[blockHash], getCacheKey(key))

\* A read that answers from the hot cache in either mode.
ReadsHotCacheAlways(dryrun) == TRUE

\* Whether a read may answer from the hot cache: `else if` on line 96 and
\* `&& !dryrun` on line 127.
ReadsHotCache(dryrun) == ~dryrun

\* The store's own Has and Get.
DbHas(key) == db[key] # NoBytes

\* What Has returns, the hot cache being `hot`.
HasRetIn(key, dryrun, blockHash, hot) ==
    IF IsEmptyKey(key) THEN FALSE
    ELSE IF dryrun /\ DryrunHit(key, blockHash)
         THEN LruVal(dryRunCaches[blockHash], getCacheKey(key)) # NilRef
    ELSE IF ReadsHotCache(dryrun) /\ LruHas(hot, getCacheKey(key)) THEN TRUE
    ELSE DbHas(key)

HasRet(key, dryrun, blockHash) == HasRetIn(key, dryrun, blockHash, cacheItems)

Has(key, dryrun, blockHash) ==
    /\ ret' = Ret("Has", key, dryrun, blockHash, BoolVal(HasRet(key, dryrun, blockHash)), OK)
    /\ dryRunCaches' =
         IF ~IsEmptyKey(key) /\ dryrun /\ DryrunHit(key, blockHash)
         THEN [dryRunCaches EXCEPT ![blockHash] = LruTouch(@, getCacheKey(key))]
         ELSE dryRunCaches
    /\ UNCHANGED <<db, cacheItems, recentCaches, heap, written>>
    /\ UNCHANGED <<restVars, created>>

\* A read of the store that reports a missing key without an error.
ReadThroughSwallowsMiss(key, variant) ==
    IF db[key] = NoBytes \/ ~DecodeOk(db[key], variant) THEN [val |-> NilVal, err |-> OK]
    ELSE [val |-> DecodeBytesItem(db[key], variant), err |-> OK]

\* The read of the store and the decode, lines 133-144.
ReadThrough(key, variant) ==
    IF db[key] = NoBytes THEN [val |-> NilVal, err |-> ErrNotFound]
    ELSE IF ~DecodeOk(db[key], variant) THEN [val |-> NilVal, err |-> ErrCorrupt]
    ELSE [val |-> DecodeBytesItem(db[key], variant), err |-> OK]

\* What a staged read answers for an entry of the overlay.
DryrunResult(value) == [val |-> Deref(value), err |-> OK]

\* What Get returns, the hot cache being `hot`.
GetRetIn(key, variant, dryrun, blockHash, hot) ==
    IF IsEmptyKey(key) THEN [val |-> NilVal, err |-> OK]
    ELSE IF dryrun /\ DryrunHit(key, blockHash)
         THEN DryrunResult(LruVal(dryRunCaches[blockHash], getCacheKey(key)))
    ELSE IF LruHas(hot, getCacheKey(key)) /\ ReadsHotCache(dryrun)
         THEN [val |-> LruVal(hot, getCacheKey(key)), err |-> OK]
    ELSE ReadThrough(key, variant)

GetRet(key, variant, dryrun, blockHash) ==
    GetRetIn(key, variant, dryrun, blockHash, cacheItems)

\* The hot cache after a Get that did not answer from the overlay:
\* cacheItems.Get is evaluated whatever the mode, the Add only when !dryrun.
HotCacheAfterGet(key, variant, dryrun) ==
    LET ck == getCacheKey(key)
        touched == LruTouch(cacheItems, ck)
    IN  IF LruHas(cacheItems, ck) /\ ReadsHotCache(dryrun) THEN touched
        ELSE IF ReadThrough(key, variant).err = OK /\ ~dryrun
             THEN LruAdd(touched, ck, ReadThrough(key, variant).val, CacheLimit)
        ELSE touched

Get(key, variant, dryrun, blockHash) ==
    /\ LET r == GetRet(key, variant, dryrun, blockHash)
       IN  /\ ret' = Ret("Get", key, dryrun, blockHash, r.val, r.err)
           /\ IF IsEmptyKey(key) THEN UNCHANGED <<dryRunCaches, cacheItems>>
              ELSE IF dryrun /\ DryrunHit(key, blockHash)
              THEN /\ dryRunCaches' = [dryRunCaches EXCEPT ![blockHash] = LruTouch(@, getCacheKey(key))]
                   /\ UNCHANGED cacheItems
              ELSE /\ cacheItems' = HotCacheAfterGet(key, variant, dryrun)
                   /\ UNCHANGED dryRunCaches
           /\ UNCHANGED <<db, recentCaches, heap, written>>
    /\ UNCHANGED <<restVars, created>>

\* The overlay after a staged Put / Delete: dryrunCache.Add(cacheKey, val).
DryrunAdd(cache, cacheKey, ref) == LruAdd(cache, cacheKey, ref, CacheLimit)

\* Staged Put: val is the caller's freshly built record.
PutDryrun(key, val, blockHash) ==
    /\ IF ~Registered(blockHash)
       THEN /\ ret' = Ret("Put", key, TRUE, blockHash, NilVal, ErrNoSuchOverlay)
            /\ UNCHANGED <<db, cacheItems, dryRunCaches, recentCaches, heap, written>>
       ELSE LET r == NewRef(blockHash, getCacheKey(key))
                caches == [dryRunCaches EXCEPT ![blockHash] = DryrunAdd(@, getCacheKey(key), r)]
            IN  /\ dryRunCaches' = caches
                /\ heap' = Collect([heap EXCEPT ![r] = val], caches)
                /\ written' = [written EXCEPT ![blockHash][key] = val]
                /\ ret' = Ret("Put", key, TRUE, blockHash, NilVal, OK)
                /\ UNCHANGED <<db, cacheItems, recentCaches>>
    /\ UNCHANGED <<restVars, created>>

\* Direct Put: the hot cache first, then the encoding, then the store.
PutDirect(key, val, fail) ==
    /\ cacheItems' = LruAdd(cacheItems, getCacheKey(key), val, CacheLimit)
    /\ db' = IF fail = OK THEN [db EXCEPT ![key] = EncodeBytesItem(val)] ELSE db
    /\ ret' = Ret("Put", key, FALSE, ZeroHash, NilVal, fail)
    /\ UNCHANGED <<dryRunCaches, recentCaches, heap, written>>
    /\ UNCHANGED <<restVars, created>>

\* Staged Delete: dryrunCache.Add(cacheKey, nil).
DeleteDryrun(key, blockHash) ==
    /\ IF ~Registered(blockHash)
       THEN /\ ret' = Ret("Delete", key, TRUE, blockHash, NilVal, ErrNoSuchOverlay)
            /\ UNCHANGED <<db, cacheItems, dryRunCaches, recentCaches, heap, written>>
       ELSE LET caches == [dryRunCaches EXCEPT ![blockHash] = DryrunAdd(@, getCacheKey(key), NilRef)]
            IN  /\ dryRunCaches' = caches
                /\ heap' = Collect(heap, caches)
                /\ written' = [written EXCEPT ![blockHash][key] = NilVal]
                /\ ret' = Ret("Delete", key, TRUE, blockHash, NilVal, OK)
                /\ UNCHANGED <<db, cacheItems, recentCaches>>
    /\ UNCHANGED <<restVars, created>>

\* Direct Delete: the hot cache, then the store.
DeleteDirect(key, fail) ==
    /\ cacheItems' = LruWithout(cacheItems, getCacheKey(key))
    /\ db' = IF fail = OK THEN [db EXCEPT ![key] = NoBytes] ELSE db
    /\ ret' = Ret("Delete", key, FALSE, ZeroHash, NilVal, fail)
    /\ UNCHANGED <<dryRunCaches, recentCaches, heap, written>>
    /\ UNCHANGED <<restVars, created>>

\* HasDryrunCache
HasDryrunCacheRet(blockhash) == Registered(blockhash) /\ Len(dryRunCaches[blockhash]) > 0

HasDryrunCache(blockhash) ==
    /\ ret' = Ret("HasDryrunCache", NilKey, TRUE, blockhash, BoolVal(HasDryrunCacheRet(blockhash)), OK)
    /\ UNCHANGED <<db, cacheItems, dryRunCaches, recentCaches, heap, written>>
    /\ UNCHANGED <<restVars, created>>

\* DropDryrunCache: purge and unregister.
Dropped(caches, blockhash) == WithoutCache(caches, blockhash)

DropDryrunCache(blockhash) ==
    /\ dryRunCaches' = Dropped(dryRunCaches, blockhash)
    /\ heap' = Collect(heap, Dropped(dryRunCaches, blockhash))
    /\ written' = [written EXCEPT ![blockhash] = NoWrites]
    /\ ret' = Ret("DropDryrunCache", NilKey, TRUE, blockhash, NilVal, OK)
    /\ created' = SeqWithout(created, blockhash)
    /\ UNCHANGED <<db, cacheItems, recentCaches>>
    /\ UNCHANGED restVars

\* An inheritance that copies the parent's pointer.
CloneRefShared(ref, fresh) == ref

\* The value InitDryRunMode stores in the new overlay for a parent's record
\* pointer: the object decoded from the record's encoding (`fresh`), not
\* the parent's pointer `ref`.
CloneRef(ref, fresh) == fresh
\* encode/decode to clone values
ClonedRecord(val) == DecodeBytesItem(EncodeBytesItem(val), val.variant)

\* The loop over parentCache.Keys(), from the i-th key on.  st holds the
\* registry (with the parent touched by Get), the overlay being built, the
\* heap and the error; failAt names the key whose decode fails (0: none).
RECURSIVE InheritLoop(_, _, _, _, _, _)
InheritLoop(i, keys, parent, blockHash, failAt, st) ==
    IF i > Len(keys) \/ st.err # OK THEN st
    ELSE LET pc == st.caches[parent]
             ok == LruHas(pc, keys[i])
             val == LruVal(pc, keys[i])
             touched == [st.caches EXCEPT ![parent] = LruTouch(@, keys[i])]
             fresh == NewRef(blockHash, keys[i])
         IN  IF ~ok THEN InheritLoop(i + 1, keys, parent, blockHash, failAt, st)
             ELSE IF val # NilRef
             THEN IF failAt = i
                  THEN [st EXCEPT !.caches = touched, !.err = ErrInherit]
                  ELSE InheritLoop(i + 1, keys, parent, blockHash, failAt,
                           [st EXCEPT !.caches = touched,
                                      !.heap = [@ EXCEPT ![fresh] = ClonedRecord(st.heap[val])],
                                      !.cache = DryrunAdd(@, keys[i], CloneRef(val, fresh))])
             ELSE InheritLoop(i + 1, keys, parent, blockHash, failAt,
                      [st EXCEPT !.caches = touched,
                                 !.cache = DryrunAdd(@, keys[i], val)])

\* An InitDryRunMode that keeps one overlay more before it evicts.
EvictsOldestLate == Len(recentCaches) > DryrunCacheLimit

\* The registry and recentCaches after the eviction of the oldest overlay
\* (lines 201-206) and the drop of the overlay being initialized (211).
EvictsOldest == Len(recentCaches) >= DryrunCacheLimit
CachesAfterEvict ==
    IF EvictsOldest THEN Dropped(dryRunCaches, recentCaches[1]) ELSE dryRunCaches
RecentAfterEvict == IF EvictsOldest THEN Tail(recentCaches) ELSE recentCaches
WrittenAfterEvict ==
    IF EvictsOldest THEN [written EXCEPT ![recentCaches[1]] = NoWrites] ELSE written

\* The creation history after the same two drops.
CreatedAfterEvict(blockHash) ==
    SeqWithout(IF EvictsOldest THEN SeqWithout(created, recentCaches[1]) ELSE created,
               blockHash)

\* Whether the new overlay's hash joins recentCaches.
JoinsRecent(blockHash) == blockHash # M1DryrunCacheHash

InitDryRunMode(blockHash, parent, failAt) ==
    /\ LET caches == Dropped(CachesAfterEvict, blockHash)
           wr == [WrittenAfterEvict EXCEPT ![blockHash] = NoWrites]
           parentOk == parent \in DOMAIN caches /\ Len(caches[parent]) > 0
           st0 == [caches |-> caches, cache |-> <<>>, heap |-> heap, err |-> OK]
           st == IF parent = ZeroHash THEN st0
                 ELSE IF parentOk
                      THEN InheritLoop(1, LruKeys(caches[parent]), parent, blockHash, failAt, st0)
                 ELSE [st0 EXCEPT !.err = ErrNoParent]
           final == IF st.err = OK THEN WithCache(st.caches, blockHash, st.cache) ELSE st.caches
       IN  /\ IF failAt = 0 THEN TRUE
              ELSE /\ parent # ZeroHash /\ parentOk /\ failAt <= Len(caches[parent])
                   /\ caches[parent][failAt].val # NilRef
           /\ dryRunCaches' = final
           /\ heap' = Collect(st.heap, final)
           /\ recentCaches' = IF st.err = OK /\ JoinsRecent(blockHash)
                              THEN Append(RecentAfterEvict, blockHash)
                              ELSE RecentAfterEvict
           /\ written' = wr
           /\ ret' = Ret("InitDryRunMode", NilKey, TRUE, blockHash, NilVal, st.err)
           /\ created' = IF st.err = OK THEN Append(CreatedAfterEvict(blockHash), blockHash)
                         ELSE CreatedAfterEvict(blockHash)
           /\ UNCHANGED <<db, cacheItems>>
    /\ UNCHANGED restVars

\* batch.Write: every put of the batch, atomically.
BatchWrite(store, batch) ==
    [k \in DOMAIN store |->
        IF \E i \in 1..Len(batch) : batch[i].key = k
        THEN batch[CHOOSE i \in 1..Len(batch) :
                      batch[i].key = k /\ \A j \in (i + 1)..Len(batch) : batch[j].key # k].value
        ELSE store[k]]

\* What SaveDryRunResult does with a tombstone: a direct delete on the store.
SaveTombstone(st, key) == [st EXCEPT !.db = [@ EXCEPT ![key] = NoBytes]]

\* The loop over dryrunCache.Keys(), from the i-th key on.  failAt names
\* the key whose step fails (the delete of a tombstone, the encoding or the
\* batch.Put of a record).
RECURSIVE SaveLoop(_, _, _, _)
SaveLoop(i, keys, failAt, st) ==
    IF i > Len(keys) \/ st.err # OK THEN st
    ELSE IF ~HexDecodeOk(keys[i]) THEN [st EXCEPT !.err = ErrCorrupt]
    ELSE IF ~LruHas(st.cache, keys[i]) THEN [st EXCEPT !.err = ErrNotFound]
    ELSE LET key == HexDecode(keys[i])
             val == LruVal(st.cache, keys[i])
             got == [st EXCEPT !.cache = LruTouch(@, keys[i])]
         IN  IF val = NilRef
             THEN IF failAt = i THEN [got EXCEPT !.err = ErrIo]
                  ELSE SaveLoop(i + 1, keys, failAt, SaveTombstone(got, key))
             ELSE IF failAt = i THEN [got EXCEPT !.err = ErrEncode]
                  ELSE SaveLoop(i + 1, keys, failAt,
                           [got EXCEPT !.batch = Append(@, [key |-> key,
                                            value |-> EncodeBytesItem(heap[val])])])

\* SaveDryRunResult.  failAt = Len + 1: batch.Write fails.
SaveDryRunResult(blockHash, failAt) ==
    /\ IF ~Registered(blockHash) \/ Len(dryRunCaches[blockHash]) = 0
       THEN /\ failAt = 0
            /\ ret' = Ret("SaveDryRunResult", NilKey, TRUE, blockHash, NilVal, OK)
            /\ UNCHANGED <<db, cacheItems, dryRunCaches, recentCaches, heap, written>>
       ELSE LET cache == dryRunCaches[blockHash]
                st == SaveLoop(1, LruKeys(cache), failAt,
                               [db |-> db, batch |-> <<>>, cache |-> cache, err |-> OK])
                writeFails == failAt = Len(cache) + 1
            IN  /\ failAt \in 0..(Len(cache) + 1)
                /\ dryRunCaches' = [dryRunCaches EXCEPT ![blockHash] = st.cache]
                /\ cacheItems' = IF st.err = OK THEN LruPurge ELSE cacheItems
                /\ db' = IF st.err = OK /\ ~writeFails THEN BatchWrite(st.db, st.batch) ELSE st.db
                /\ ret' = Ret("SaveDryRunResult", NilKey, TRUE, blockHash, NilVal,
                              IF st.err # OK THEN st.err ELSE IF writeFails THEN ErrIo ELSE OK)
                /\ UNCHANGED <<recentCaches, heap, written>>
    /\ UNCHANGED <<restVars, created>>

\* A caller modifies in place the record a staged Get returned from the
\* overlay (the Get's result is the overlay's own pointer).
ModifyInPlace(key, blockHash, data) ==
    /\ ~IsEmptyKey(key)
    /\ DryrunHit(key, blockHash)
    /\ LET ref == LruVal(dryRunCaches[blockHash], getCacheKey(key))
       IN  /\ ref # NilRef
           /\ heap[ref].data # data
           /\ heap' = [heap EXCEPT ![ref].data = data]
           /\ written' = [h \in Hashes |-> [k \in Keys |->
                 IF /\ written[h][k] # NoWrite
                    /\ h \in DOMAIN dryRunCaches
                    /\ LruHas(dryRunCaches[h], getCacheKey(k))
                    /\ LruVal(dryRunCaches[h], getCacheKey(k)) = ref
                 THEN [heap[ref] EXCEPT !.data = data]
                 ELSE written[h][k]]]
           /\ ret' = Ret("ModifyInPlace", key, TRUE, blockHash, [heap[ref] EXCEPT !.data = data], OK)
    /\ dryRunCaches' = [dryRunCaches EXCEPT ![blockHash] = LruTouch(@, getCacheKey(key))]
    /\ UNCHANGED <<db, cacheItems, recentCaches>>
    /\ UNCHANGED <<restVars, created>>

\* --------------------------------------------------- block validator ----
\* core.BlockValidator.  The matching engine service, the chain and the
\* consensus engine are collaborators: the order book is the set of the
\* order hashes ProcessOrder has applied, and what a collaborator answers
\* is an input of the call.

\* An error value: its kind, the transaction it is about (0: the block) and
\* the kind of the error its text embeds ("none": no error embedded).
VErr(kind, tx, wraps) == [kind |-> kind, tx |-> tx, wraps |-> wraps]
VNil == VErr("nil", 0, "none")

\* The steps of validateMatchedOrder that can fail, in the order of the
\* code: those that return (nil, nil, err) and those that return the order.
PreSteps == {"Unmarshal", "DecodeOrder", "VerifyMatchedOrder", "GetOrderBook",
             "VerifyOldTomoXState", "ProcessOrder"}
PostSteps == {"MarkOrderAsProcessed", "VerifyNewTomoXState", "logTrades"}

NilOrder == Rec("nil", 0)
NilOrderList == Rec("nil", 0)

\* What the engine state holds during a replay.
EngineState(book, marked, sink) == [ob |-> book, processedHashes |-> marked, tradeSink |-> sink]

\* ob.ProcessOrder(order, true): the order is applied to the book.
ProcessOrder(book, hash) == book \cup {hash}
\* ob.Asks.MinPriceList() / ob.Bids.MaxPriceList(): the best opposing level
\* as it is before the order is processed.
BestOpposingList(book) == Rec("OrderList", Cardinality(book))

VmoResult(order, ol, err, st) == [order |-> order, ol |-> ol, err |-> err, st |-> st]

\* A validateMatchedOrder that hands the order to ProcessOrder before it
\* verifies anything.
validateMatchedOrderProcessFirst(tx, i, hash, st) ==
    LET order == Rec("OrderItem", hash)
        ol == IF tx.trades THEN BestOpposingList(st.ob) ELSE NilOrderList
        applied == [st EXCEPT !.ob = ProcessOrder(@, hash)]
        marked == [applied EXCEPT !.processedHashes = @ \cup {hash}]
        logged == [marked EXCEPT !.tradeSink = IF tx.trades THEN @ \cup {hash} ELSE @]
    IN  IF tx.fail \in PreSteps
        THEN VmoResult(NilOrder, NilOrderList, VErr(tx.fail, i, "none"), applied)
        ELSE IF tx.fail = "MarkOrderAsProcessed"
        THEN VmoResult(order, ol, VErr(tx.fail, i, "none"), applied)
        ELSE IF tx.fail \in {"VerifyNewTomoXState", "logTrades"}
        THEN VmoResult(order, ol, VErr(tx.fail, i, "none"), marked)
        ELSE VmoResult(order, ol, VNil, logged)

\* validateMatchedOrder(tomoXService, currentState, tx) for the transaction
\* at index i, whose order has hash `hash`; tx.fail names the step that
\* fails ("none": no step fails).
validateMatchedOrder(tx, i, hash, st) ==
    IF tx.fail \in PreSteps
    THEN VmoResult(NilOrder, NilOrderList, VErr(tx.fail, i, "none"), st)
    ELSE LET order == Rec("OrderItem", hash)
             ol == IF tx.trades THEN BestOpposingList(st.ob) ELSE NilOrderList
             applied == [st EXCEPT !.ob = ProcessOrder(@, hash)]
             marked == [applied EXCEPT !.processedHashes = @ \cup {hash}]
             logged == [marked EXCEPT !.tradeSink = IF tx.trades THEN @ \cup {hash} ELSE @]
         IN  IF tx.fail = "MarkOrderAsProcessed"
             THEN VmoResult(order, ol, VErr(tx.fail, i, "none"), applied)
             ELSE IF tx.fail \in {"VerifyNewTomoXState", "logTrades"}
             THEN VmoResult(order, ol, VErr(tx.fail, i, "none"), marked)
             ELSE VmoResult(order, ol, VNil, logged)

\* tomox.EncodeBytesItem as ValidateBody calls it on the order and on the
\* snapshot: tx.enc names the one whose encoding fails ("none": neither).
EncodeErr(tx, i, what) == IF tx.enc = what THEN VErr("EncodeBytesItem", i, "none") ELSE VNil

\* The processedData entry of an order and its snapshot.
ProcessedRecord(order, ol) ==
    [orderItem |-> EncodeBytesItem(order),
     orderList |-> IF ol = NilOrderList THEN NoBytes ELSE EncodeBytesItem(ol)]

\* The body of the loop for a matching transaction.  `ls` holds the engine
\* state, processedData and err, with the history of the replay: the
\* errors that occurred and the orders ProcessOrder applied.
LoopBody(tx, i, hash, ls) ==
    LET r == validateMatchedOrder(tx, i, hash, ls.st)
        seen == [ls EXCEPT !.st = r.st,
                           !.failures = IF r.err # VNil THEN Append(@, r.err) ELSE @,
                           !.applied = IF r.st.ob # ls.st.ob THEN @ \cup {hash} ELSE @]
        itemErr == EncodeErr(tx, i, "orderItem")
        listErr == EncodeErr(tx, i, "orderList")
    IN  IF r.order = NilOrder
        THEN [seen EXCEPT !.err = r.err]
        ELSE IF itemErr # VNil
             THEN [seen EXCEPT !.err = itemErr, !.failures = Append(@, itemErr)]
             ELSE IF r.ol # NilOrderList /\ listErr # VNil
                  THEN [seen EXCEPT !.err = listErr, !.failures = Append(@, listErr)]
                  ELSE [seen EXCEPT
                           !.err = IF r.ol # NilOrderList THEN listErr ELSE itemErr,
                           !.processedData = Append(@, ProcessedRecord(r.order, r.ol))]

\* The loop over block.Transactions() from index i on; the order of the
\* transaction at index i has hash base + i.
RECURSIVE ReplayLoop(_, _, _, _)
ReplayLoop(i, txs, base, ls) ==
    IF i > Len(txs) THEN ls
    ELSE IF ~txs[i].matching THEN ReplayLoop(i + 1, txs, base, ls)
    ELSE LET after == LoopBody(txs[i], i, base + i, ls)
         IN  IF after.err # VNil THEN after ELSE ReplayLoop(i + 1, txs, base, after)

\* tomoXService.Rollback(processedData) when it succeeds: the pre-image of
\* every record listed is restored, that is, its order leaves the book.
Rollback(records, st) ==
    [st EXCEPT !.ob = @ \ {DecodeBytesItem(records[j].orderItem, "OrderItem").data :
                              j \in 1..Len(records)}]

\* Structural checks that look the matching service up before anything else.
StructuralErrorServiceFirst(header) ==
    IF ~header.service THEN VErr("ErrTomoXServiceNotFound", 0, "none")
    ELSE IF header.known THEN VErr("ErrKnownBlock", 0, "none")
    ELSE IF ~header.parentState
         THEN IF ~header.parentBlock THEN VErr("ErrUnknownAncestor", 0, "none")
              ELSE VErr("ErrPrunedAncestor", 0, "none")
    ELSE IF ~header.unclesOk THEN VErr("VerifyUncles", 0, "none")
    ELSE IF ~header.uncleRootOk THEN VErr("UncleRootMismatch", 0, "none")
    ELSE IF ~header.txRootOk THEN VErr("TxRootMismatch", 0, "none")
    ELSE IF ~header.stateOk THEN VErr("State", 0, "none")
    ELSE VNil

\* The checks of ValidateBody before the replay.
StructuralError(header) ==
    IF header.known THEN VErr("ErrKnownBlock", 0, "none")
    ELSE IF ~header.parentState
         THEN IF ~header.parentBlock THEN VErr("ErrUnknownAncestor", 0, "none")
              ELSE VErr("ErrPrunedAncestor", 0, "none")
    ELSE IF ~header.unclesOk THEN VErr("VerifyUncles", 0, "none")
    ELSE IF ~header.uncleRootOk THEN VErr("UncleRootMismatch", 0, "none")
    ELSE IF ~header.txRootOk THEN VErr("TxRootMismatch", 0, "none")
    ELSE IF ~header.service THEN VErr("ErrTomoXServiceNotFound", 0, "none")
    ELSE IF ~header.stateOk THEN VErr("State", 0, "none")
    ELSE VNil

\* What the chain, the consensus engine and the service lookup answer for a
\* block: one flag for each check.
Headers ==
    {h \in [known : BOOLEAN, parentState : BOOLEAN, parentBlock : BOOLEAN,
            unclesOk : BOOLEAN, uncleRootOk : BOOLEAN, txRootOk : BOOLEAN,
            service : BOOLEAN, stateOk : BOOLEAN] : h.parentState => h.parentBlock}
GoodHeader == CHOOSE h \in Headers : StructuralError(h) = VNil

\* The record of a call: the block's header and which of its transactions
\* are matching ones, the error returned, whether Rollback was called and
\* with what, and the history of the replay.
VRet(block, err, rollback, handed, failures, applied) ==
    [op |-> "ValidateBody", header |-> block.header,
     matching |-> [i \in 1..Len(block.txs) |-> block.txs[i].matching],
     err |-> err, rollback |-> rollback, handed |-> handed,
     failures |-> failures, applied |-> applied]

ValidateBody(block, rollbackFails) ==
    /\ txSeq + Len(block.txs) <= MaxOrders
    /\ LET serr == StructuralError(block.header)
           start == [st |-> EngineState(ob, processedHashes, tradeSink),
                     processedData |-> <<>>, err |-> VNil,
                     failures |-> <<>>, applied |-> {}]
           ls == IF serr # VNil THEN start ELSE ReplayLoop(1, block.txs, txSeq, start)
           rolls == ls.err # VNil
           final == IF rolls /\ ~rollbackFails THEN Rollback(ls.processedData, ls.st)
                    ELSE ls.st
           err == IF serr # VNil THEN serr
                  ELSE IF rolls /\ rollbackFails
                       THEN VErr("RollbackFailure", 0, "Rollback")
                       ELSE ls.err
       IN  /\ ob' = final.ob
           /\ processedHashes' = final.processedHashes
           /\ tradeSink' = final.tradeSink
           /\ vret' = VRet(block, err,
                           IF ~rolls THEN "none" ELSE IF rollbackFails THEN "failed" ELSE "done",
                           IF rolls THEN ls.processedData ELSE <<>>,
                           ls.failures, ls.applied)
    /\ txSeq' = txSeq + Len(block.txs)
    /\ UNCHANGED <<dbVars, created, taskVars, gas>>

InitVB ==
    /\ ob = {}
    /\ processedHashes = {}
    /\ tradeSink = {}
    /\ txSeq = 0
    /\ vret = [VRet([header |-> GoodHeader, txs |-> <<>>], VNil, "none", <<>>, <<>>, {})
                  EXCEPT !.op = "New"]

\* The blocks handed to ValidateBody.
Tx(matching, fail, trades, enc) ==
    [matching |-> matching, fail |-> fail, trades |-> trades, enc |-> enc]
NonMatchingTx == Tx(FALSE, "none", FALSE, "none")
MatchingTxs ==
    {Tx(TRUE, f, FALSE, "none") : f \in PreSteps} \cup
    {t \in {Tx(TRUE, f, tr, e) : f \in PostSteps \cup {"none"}, tr \in BOOLEAN,
                                  e \in {"none", "orderItem", "orderList"}} :
        /\ t.fail = "logTrades" => t.trades
        /\ t.enc = "orderList" => t.trades}
TxLists == UNION {[1..n -> MatchingTxs \cup {NonMatchingTx}] : n \in 0..MaxTxs}
Blocks ==
    {[header |-> GoodHeader, txs |-> txs] : txs \in TxLists} \cup
    {[header |-> h, txs |-> <<Tx(TRUE, "none", TRUE, "none")>>] : h \in Headers}

\* Blocks are validated one at a time.
NextVB == \E block \in Blocks, rollbackFails \in BOOLEAN : ValidateBody(block, rollbackFails)

\* ----------------------------------------------------- specification ----

\* The calls a client makes on one BatchDatabase, one at a time.
SpecHashes == {"h1"}
Fails == {OK, ErrIo}

Next ==
    \/ \E k \in ReadKeys, h \in SpecHashes : Has(k, TRUE, h)
    \/ \E k \in ReadKeys : Has(k, FALSE, ZeroHash)
    \/ \E k \in ReadKeys, v \in ReadVariants, h \in SpecHashes : Get(k, v, TRUE, h)
    \/ \E k \in ReadKeys, v \in ReadVariants : Get(k, v, FALSE, ZeroHash)
    \/ \E k \in Keys, v \in InVals, h \in SpecHashes : PutDryrun(k, v, h)
    \/ \E k \in Keys, v \in InVals, f \in {OK, ErrEncode, ErrIo} : PutDirect(k, v, f)
    \/ \E k \in Keys, h \in SpecHashes : DeleteDryrun(k, h)
    \/ \E k \in Keys, f \in Fails : DeleteDirect(k, f)
    \/ \E h \in SpecHashes : InitDryRunMode(h, ZeroHash, 0)
    \/ \E h \in SpecHashes, f \in 0..(CacheLimit + 1) : SaveDryRunResult(h, f)
    \/ \E h \in SpecHashes : HasDryrunCache(h)
    \/ \E h \in SpecHashes : DropDryrunCache(h)

vars == <<dbVars, vbVars, created, taskVars, gas>>
InitTasks == created = <<>> /\ initTask = [t \in Tasks |-> IdleInit] /\ saveTask = IdleSave
Init == InitDB /\ InitVB /\ InitTasks /\ gas = NoGas
Spec == Init /\ [][Next]_vars

\* The staged calls of validator tasks on a parent overlay and its
\* children, with the in-place changes they make to the records they read.
IsoHashes == {"h1", "h2", M1DryrunCacheHash}
IsoKeys == {K1}
IsoVals == {Rec("OrderItem", 1)}

NextIso ==
    \/ \E h \in IsoHashes, p \in IsoHashes \cup {ZeroHash}, f \in 0..CacheLimit :
           InitDryRunMode(h, p, f)
    \/ \E k \in IsoKeys, v \in IsoVals, h \in IsoHashes : PutDryrun(k, v, h)
    \/ \E k \in IsoKeys, h \in IsoHashes : DeleteDryrun(k, h)
    \/ \E k \in IsoKeys, h \in IsoHashes, d \in Data : ModifyInPlace(k, h, d)
    \/ \E h \in IsoHashes : DropDryrunCache(h)

SpecIso == Init /\ [][NextIso]_vars

\* The validation of blocks.
SpecVB == Init /\ [][NextVB]_vars

\* ------------------------------------------------------------ claims ----

\* Every record a store entry or a cache entry may hold.
RecordDomain == {Rec(v, d) : v \in Variants, d \in Data}

\* The overlay of h holds an entry for k, and that entry is a tombstone.
HoldsTombstone(k, h) ==
    DryrunHit(k, h) /\ LruVal(dryRunCaches[h], getCacheKey(k)) = NilRef

\* The record objects overlay h refers to.
RefsOf(h) == {dryRunCaches[h][i].val : i \in 1..Len(dryRunCaches[h])} \ {NilRef}

\* C1: overlay isolation.  In every reachable state no record object is
\* referenced by two overlays; and a staged Put or Delete on an overlay, or
\* the in-place modification of a record a staged Get returned from it,
\* leaves what a staged Get and a staged Has return from every other
\* overlay (its parent, its children and its siblings included) unchanged.
C1_OverlayIsolation ==
    /\ [](\A a, b \in DOMAIN dryRunCaches : a # b => RefsOf(a) \cap RefsOf(b) = {})
    /\ [][(ret'.op \in {"Put", "Delete", "ModifyInPlace"} /\ ret'.dryrun) =>
            \A h \in Hashes \ {ret'.hash}, k \in Keys :
                /\ HasRet(k, TRUE, h)' = HasRet(k, TRUE, h)
                /\ \A v \in ReadVariants :
                       GetRet(k, v, TRUE, h)' = GetRet(k, v, TRUE, h)]_vars

\* A record inherited by h1 from the miner overlay has just been modified
\* in place, while the parent and the sibling h2 still hold the original.
C1_Witness ==
    /\ ret.op = "ModifyInPlace" /\ ret.hash = "h1"
    /\ DryrunHit(ret.key, "h2") /\ DryrunHit(ret.key, M1DryrunCacheHash)
    /\ written["h1"][ret.key] = NoWrite /\ written["h2"][ret.key] = NoWrite
    /\ GetRet(ret.key, ret.val.variant, TRUE, "h1").val = ret.val
    /\ GetRet(ret.key, ret.val.variant, TRUE, "h2").val # ret.val
    /\ GetRet(ret.key, ret.val.variant, TRUE, "h2")
         = GetRet(ret.key, ret.val.variant, TRUE, M1DryrunCacheHash)
    /\ GetRet(ret.key, ret.val.variant, TRUE, "h2").val # NilVal

\* Every content the hot cache may have.
HotEntries == {[key |-> getCacheKey(k), val |-> v] : k \in Keys, v \in InVals}
HotCaches ==
    {c \in UNION {[1..n -> HotEntries] : n \in 0..CacheLimit} :
        \A i, j \in 1..Len(c) : i # j => c[i].key # c[j].key}

\* C6: staged reads do not consult the hot cache.  In every reachable state
\* staged Has and staged Get answer the same whatever the hot cache holds,
\* and a step that is a staged Has or Get leaves every entry of the hot
\* cache in place (none added, none removed, none changed).
C6_StagedReadsIgnoreHotCache ==
    /\ [](\A k \in ReadKeys, h \in Hashes, hot \in HotCaches :
            /\ HasRetIn(k, TRUE, h, hot) = HasRet(k, TRUE, h)
            /\ \A v \in ReadVariants :
                   GetRetIn(k, v, TRUE, h, hot) = GetRet(k, v, TRUE, h))
    /\ [][(ret'.op \in {"Has", "Get"} /\ ret'.dryrun) =>
            /\ LruKeySet(cacheItems') = LruKeySet(cacheItems)
            /\ \A ck \in LruKeySet(cacheItems) :
                   LruVal(cacheItems', ck) = LruVal(cacheItems, ck)]_vars

\* A staged Get has just fallen through to the store while the hot cache
\* holds another value for the same key.
C6_Witness ==
    /\ ret.op = "Get" /\ ret.dryrun /\ ret.key \in Keys
    /\ ~DryrunHit(ret.key, ret.hash)
    /\ LruHas(cacheItems, getCacheKey(ret.key))
    /\ ret.err = OK
    /\ LruVal(cacheItems, getCacheKey(ret.key)) # ret.val

\* C10: staged read fall-through.  For every non-empty key K and every
\* hash H whose overlay holds no entry for K (H unregistered or empty
\* included): if the store holds the encoding of record V under K, a staged
\* Get expecting V's variant returns V and staged Has returns true; if the
\* store has no K, staged Get returns NotFound and staged Has returns false.
\* The same holds of the result of the staged Get or Has just made.
C10_StagedFallThrough ==
    /\ \A k \in Keys, h \in Hashes :
         ~DryrunHit(k, h) =>
            IF db[k] # NoBytes
            THEN /\ HasRet(k, TRUE, h)
                 /\ \A V \in RecordDomain :
                        EncodeBytesItem(V) = db[k] =>
                            GetRet(k, V.variant, TRUE, h) = [val |-> V, err |-> OK]
            ELSE /\ ~HasRet(k, TRUE, h)
                 /\ \A v \in Variants : GetRet(k, v, TRUE, h).err = ErrNotFound
    /\ (ret.dryrun /\ ret.key \in Keys /\ ~DryrunHit(ret.key, ret.hash)) =>
          /\ ret.op = "Has" => ret.val = BoolVal(db[ret.key] # NoBytes)
          /\ ret.op = "Get" =>
                IF db[ret.key] = NoBytes THEN ret.err = ErrNotFound
                ELSE ret.err = OK => EncodeBytesItem(ret.val) = db[ret.key]

\* A staged Get of a key the non-empty overlay does not hold has just
\* returned the record of the store.
C10_Witness ==
    /\ ret.op = "Get" /\ ret.dryrun /\ ret.key \in Keys /\ ret.err = OK
    /\ Registered(ret.hash) /\ Len(dryRunCaches[ret.hash]) > 0
    /\ ~DryrunHit(ret.key, ret.hash)
    /\ EncodeBytesItem(ret.val) = db[ret.key]

\* C9: a staged Get of a key whose overlay entry is a tombstone ends with
\* the NotFound error, as a staged Get of a key that is nowhere does.
C9_TombstoneGetIsNotFound ==
    (ret.op = "Get" /\ ret.dryrun /\ ret.key \in Keys /\ HoldsTombstone(ret.key, ret.hash))
        => ret.err = ErrNotFound

\* C8: tombstone masking.  While the last staged write to K in H is a
\* delete (K not staged-put again, H not dropped or re-initialized since),
\* staged Has of K in H returns false.
C8_TombstoneMasks ==
    (ret.op = "Has" /\ ret.dryrun /\ ret.key \in Keys /\ written[ret.hash][ret.key] = NilVal)
        => ret.val = BoolVal(FALSE)

\* The entry of overlay h for key k: its pointer and the record there.
EntryOf(caches, hp, h, k) ==
    IF h \in DOMAIN caches /\ LruHas(caches[h], getCacheKey(k))
    THEN <<"entry", LruVal(caches[h], getCacheKey(k)),
           IF LruVal(caches[h], getCacheKey(k)) = NilRef THEN NilVal
           ELSE hp[LruVal(caches[h], getCacheKey(k))]>>
    ELSE <<"none", NilRef, NilVal>>

\* C7: a staged Put or Delete of K in H changes nothing except the entry
\* for K in overlay H; on an unregistered H it fails with NoSuchOverlay and
\* changes nothing.
C7_StagedWriteFrame ==
    [][(ret'.op \in {"Put", "Delete"} /\ ret'.dryrun) =>
          /\ db' = db /\ cacheItems' = cacheItems /\ recentCaches' = recentCaches
          /\ DOMAIN dryRunCaches' = DOMAIN dryRunCaches
          /\ \A h \in Hashes, k \in Keys :
                 (h # ret'.hash \/ k # ret'.key) =>
                     EntryOf(dryRunCaches', heap', h, k) = EntryOf(dryRunCaches, heap, h, k)
          /\ Registered(ret'.hash) => ret'.err = OK
          /\ ~Registered(ret'.hash) =>
                 /\ ret'.err = ErrNoSuchOverlay
                 /\ dryRunCaches' = dryRunCaches /\ heap' = heap]_vars

\* C5: promotion is atomic on the store.  A SaveDryRunResult that returns
\* an error leaves the store as it was; one that returns OK has stored
\* every record of the overlay and deleted every tombstoned key.
C5_PromotionAtomic ==
    [][ret'.op = "SaveDryRunResult" =>
          /\ ret'.err # OK => db' = db
          /\ (ret'.err = OK /\ Registered(ret'.hash)) =>
                 \A k \in Keys :
                     DryrunHit(k, ret'.hash) =>
                         db'[k] = IF HoldsTombstone(k, ret'.hash) THEN NoBytes
                                  ELSE EncodeBytesItem(
                                         heap[LruVal(dryRunCaches[ret'.hash], getCacheKey(k))])]_vars

\* C2: promotion linearizability.  In the state SaveDryRunResult(H) leaves
\* when it returns OK, a direct Get of every key K written in H returns the
\* record last written to K in H, and NotFound when the last staged write
\* to K was a delete.
C2_PromotionLinearizable ==
    (ret.op = "SaveDryRunResult" /\ ret.err = OK) =>
        \A k \in Keys :
            LET w == written[ret.hash][k]
            IN  w # NoWrite =>
                    IF w = NilVal
                    THEN \A v \in Variants : GetRet(k, v, FALSE, ZeroHash).err = ErrNotFound
                    ELSE GetRet(k, w.variant, FALSE, ZeroHash) = [val |-> w, err |-> OK]

\* The orders of the records in a processed-record list.
OrdersOf(records) ==
    {DecodeBytesItem(records[j].orderItem, "OrderItem").data : j \in 1..Len(records)}

\* C3: post-process failures surface.  When a step of the replay of a
\* block has failed, ValidateBody does not return nil; and when the first
\* step that failed is one after ProcessOrder (mark as processed, verify
\* new state, log trades), ValidateBody has called the rollback hook and
\* returns that first error or the rollback failure.
C3_PostProcessFailureSurfaces ==
    (vret.op = "ValidateBody" /\ vret.failures # <<>>) =>
        /\ vret.err # VNil
        /\ Head(vret.failures).kind \in PostSteps =>
              /\ vret.rollback # "none"
              /\ vret.err = Head(vret.failures) \/ vret.err.kind = "RollbackFailure"

\* C4: rollback completeness.  When a step of the replay of a block has
\* failed and the rollback hook did not fail, the list handed to the hook
\* holds a record for every order ProcessOrder applied, and the order book
\* after ValidateBody is the order book before it.
C4_RollbackCompleteness ==
    [][(vret'.op = "ValidateBody" /\ vret'.failures # <<>> /\ vret'.rollback # "failed") =>
          /\ vret'.applied \subseteq OrdersOf(vret'.handed)
          /\ ob' = ob]_vars

\* C11: read-your-writes within an overlay.  A staged Get of K in H, made
\* after staged writes to K in H (H not dropped or re-initialized since),
\* returns the record of the most recent staged Put to K, and no record
\* when the most recent staged write to K was a Delete, however many other
\* keys were written in H in between.
C11_ReadYourWrites ==
    (ret.op = "Get" /\ ret.dryrun /\ ret.key \in Keys
        /\ written[ret.hash][ret.key] # NoWrite) =>
        IF written[ret.hash][ret.key] = NilVal THEN ret.val = NilVal
        ELSE ret.err = OK /\ ret.val = written[ret.hash][ret.key]

\* --------------------------------------------------------- CalcGasLimit ----

\* Package params is not part of the sources: the divisor is the one the
\* specification names, the two limits are the ones its worked example
\* (8,000,000 / 6,000,000 gives 8,000,978 "unclamped") is consistent with.
GasLimitBoundDivisor == 1024
MinGasLimit == 5000
TargetGasLimit == 4712388

\* uint64, scaled down to GasWordBits bits.
GasWordBits == 24
GasWord == 2 ^ GasWordBits
U64(x) == x % GasWord

\* contrib = (parentGasUsed * 3 / 2) / 1024
Contrib(gasUsed) == U64(gasUsed + gasUsed \div 2) \div GasLimitBoundDivisor
\* decay = parentGasLimit / 1024 -1
Decay(gasLimit) == U64(gasLimit \div GasLimitBoundDivisor - 1)

CalcGasLimit(gasLimit, gasUsed) ==
    LET limit == U64(U64(gasLimit - Decay(gasLimit)) + Contrib(gasUsed))
        raised == IF limit < MinGasLimit THEN MinGasLimit ELSE limit
        grown == U64(gasLimit + Decay(gasLimit))
    IN  IF raised < TargetGasLimit
        THEN IF grown > TargetGasLimit THEN TargetGasLimit ELSE grown
        ELSE raised

\* The parent blocks CalcGasLimit is called with.
GasLimits ==
    {0, 1, 1023, 1024, 1025, 2048, MinGasLimit - 1, MinGasLimit, TargetGasLimit - 1,
     TargetGasLimit, TargetGasLimit + 4603, 8000000, GasWord - 1}
GasUseds == {0, 1, 682, 683, 2048, 3000000, 6000000, 8000000, GasWord - 1}

CallCalcGasLimit ==
    /\ ~gas.called
    /\ gas' = [gas EXCEPT !.limit = CalcGasLimit(gas.gasLimit, gas.gasUsed), !.called = TRUE]
    /\ UNCHANGED <<dbVars, vbVars, created, taskVars>>

InitGas ==
    /\ InitDB /\ InitVB /\ InitTasks
    /\ gas \in {[NoGas EXCEPT !.gasLimit = l, !.gasUsed = u] : l \in GasLimits, u \in GasUseds}
SpecGas == InitGas /\ [][CallCalcGasLimit]_vars

\* The recurrence as stated, over the integers.
RecurrenceD(gasLimit) == gasLimit \div GasLimitBoundDivisor - 1
RecurrenceC(gasUsed) == ((gasUsed * 3) \div 2) \div GasLimitBoundDivisor
Min2(a, b) == IF a < b THEN a ELSE b
Recurrence(gasLimit, gasUsed) ==
    LET L == gasLimit - RecurrenceD(gasLimit) + RecurrenceC(gasUsed)
        raised == IF L < MinGasLimit THEN MinGasLimit ELSE L
    IN  IF raised < TargetGasLimit
        THEN Min2(gasLimit + RecurrenceD(gasLimit), TargetGasLimit)
        ELSE raised

\* C18: for every parent block, gas_limit below 1024 included, CalcGasLimit
\* returns the value of the recurrence D = gas_limit/1024 - 1,
\* C = (gas_used*3/2)/1024, L = gas_limit - D + C, raised to MinGasLimit, then
\* min(gas_limit + D, TargetGasLimit) when L < TargetGasLimit; for 8,000,000
\* and 6,000,000 that is D = 7811, C = 8789 and 8,000,978.
C18_GasLimitRecurrence ==
    gas.called =>
        /\ gas.limit = Recurrence(gas.gasLimit, gas.gasUsed)
        /\ (gas.gasLimit = 8000000 /\ gas.gasUsed = 6000000) =>
               /\ Decay(gas.gasLimit) = 7811
               /\ Contrib(gas.gasUsed) = 8789
               /\ gas.limit = 8000978

\* The same for parents whose gas_limit is not zero and whose gas_used is
\* small enough for gas_used + gas_used / 2 to fit the word.
C18_Probe ==
    (gas.called /\ gas.gasLimit >= 1 /\ gas.gasUsed < GasWord \div 2) =>
        gas.limit = Recurrence(gas.gasLimit, gas.gasUsed)

\* ------------------------------------------- structural checks (C15) ----

\* The checks in the order stated, each with the flags that make it fail
\* and the error it fails with.
StatedChecks == <<"known-block", "ancestry", "uncle verification", "uncle root",
                  "transaction root", "matching-service lookup">>
CheckFails(header, check) ==
    CASE check = "known-block" -> header.known
      [] check = "ancestry" -> ~header.parentState
      [] check = "uncle verification" -> ~header.unclesOk
      [] check = "uncle root" -> ~header.uncleRootOk
      [] check = "transaction root" -> ~header.txRootOk
      [] check = "matching-service lookup" -> ~header.service
CheckError(header, check) ==
    CASE check = "known-block" -> "ErrKnownBlock"
      [] check = "ancestry" ->
            IF ~header.parentBlock THEN "ErrUnknownAncestor" ELSE "ErrPrunedAncestor"
      [] check = "uncle verification" -> "VerifyUncles"
      [] check = "uncle root" -> "UncleRootMismatch"
      [] check = "transaction root" -> "TxRootMismatch"
      [] check = "matching-service lookup" -> "ErrTomoXServiceNotFound"
SomeCheckFails(header) == \E i \in 1..Len(StatedChecks) : CheckFails(header, StatedChecks[i])
FirstFailing(header) ==
    StatedChecks[CHOOSE i \in 1..Len(StatedChecks) :
        /\ CheckFails(header, StatedChecks[i])
        /\ \A j \in 1..(i - 1) : ~CheckFails(header, StatedChecks[j])]

\* A step that is a ValidateBody call.
ValidateBodyStep == vret'.op = "ValidateBody" /\ txSeq' = txSeq + Len(vret'.matching)

\* C15: ValidateBody makes its structural checks in the order known block,
\* ancestry (unknown ancestor when the parent block is unknown, pruned
\* ancestor otherwise), uncle verification, uncle root, transaction root,
\* matching-service lookup, and returns the error of the first that fails;
\* then no transaction is replayed: the order book, the overlays, the
\* processed-order marks and the trade sink are unchanged and Rollback is
\* not called.
C15_StructuralChecksInOrder ==
    [][(ValidateBodyStep /\ SomeCheckFails(vret'.header)) =>
          /\ vret'.err = VErr(CheckError(vret'.header, FirstFailing(vret'.header)), 0, "none")
          /\ vret'.failures = <<>> /\ vret'.applied = {}
          /\ vret'.rollback = "none" /\ vret'.handed = <<>>
          /\ ob' = ob /\ processedHashes' = processedHashes /\ tradeSink' = tradeSink
          /\ dryRunCaches' = dryRunCaches /\ heap' = heap /\ db' = db]_vars

\* A block whose uncles do not verify and whose transaction root is wrong too
\* is refused for its uncles, with a matching transaction in it and orders of
\* an earlier block in the book.
C15_Witness ==
    /\ vret.op = "ValidateBody"
    /\ ~vret.header.known /\ vret.header.parentState
    /\ ~vret.header.unclesOk /\ ~vret.header.txRootOk /\ ~vret.header.service
    /\ vret.err.kind = "VerifyUncles"
    /\ Len(vret.matching) = 1 /\ vret.matching[1]
    /\ ob # {}

\* ------------------------------------------- pre-state mismatch (C16) ----

\* The call found that VerifyOldTomoXState failed for the transaction at index i.
PreMismatchAt(r, i) ==
    /\ r.op = "ValidateBody"
    /\ \E j \in 1..Len(r.failures) :
          r.failures[j].kind = "VerifyOldTomoXState" /\ r.failures[j].tx = i
\* The orders of the matching transactions before index i, in block order,
\* for a block whose first order has hash base + 1.
RECURSIVE OrdersBefore(_, _, _)
OrdersBefore(matching, base, i) ==
    IF i <= 1 THEN <<>>
    ELSE LET before == OrdersBefore(matching, base, i - 1)
         IN  IF matching[i - 1] THEN Append(before, base + i - 1) ELSE before
SeqRange(s) == {s[j] : j \in 1..Len(s)}
HandedOrders(r) ==
    [j \in 1..Len(r.handed) |-> DecodeBytesItem(r.handed[j].orderItem, "OrderItem").data]

C17_RollbackFailureMentionsOriginal ==
    (vret.op = "ValidateBody" /\ vret.rollback # "none") =>
        LET E == vret.failures[Len(vret.failures)]
        IN  IF vret.rollback = "failed"
            THEN vret.err.kind = "RollbackFailure" /\ vret.err.wraps = E.kind
            ELSE vret.err = E

\* ------------------------------------------------ FIFO eviction (C12) ----

\* Validator tasks create the overlays of a chain of blocks one after the
\* other, from an empty registry: the first from nothing, each later one
\* from its predecessor's, and write staged records in between.
FifoOrder == <<"h1", "h2", "h3", "h4">>
FifoHashes == {FifoOrder[i] : i \in 1..Len(FifoOrder)}
\* How many overlays of the chain have been created.
FifoCount ==
    IF recentCaches = <<>> THEN 0
    ELSE CHOOSE i \in 1..Len(FifoOrder) : FifoOrder[i] = recentCaches[Len(recentCaches)]

FifoInit ==
    /\ FifoCount <= DryrunCacheLimit /\ FifoCount < Len(FifoOrder)
    /\ InitDryRunMode(FifoOrder[FifoCount + 1],
                      IF FifoCount = 0 THEN ZeroHash ELSE FifoOrder[FifoCount], 0)
    /\ ret'.err = OK

NextFifo ==
    \/ FifoInit
    \/ \E k \in IsoKeys, v \in IsoVals, h \in FifoHashes : PutDryrun(k, v, h)
    \/ \E k \in IsoKeys, h \in FifoHashes : DeleteDryrun(k, h)
    \/ \E h \in FifoHashes : HasDryrunCache(h)

SpecFifo == Init /\ [][NextFifo]_vars

\* HasDryrunCache was asked about the earliest overlay of the chain.
AskedForEarliest == ret.op = "HasDryrunCache" /\ ret.hash = FifoOrder[1]

\* C12: from an empty registry, after dryrunCacheLimit successive
\* successful InitDryRunMode calls with distinct non-miner hashes,
\* HasDryrunCache of the earliest of them returns false.
C12_EarliestGoneAfterLimit ==
    (AskedForEarliest /\ FifoCount = DryrunCacheLimit) => ret.val = BoolVal(FALSE)

\* C12 as the code has it: the earliest overlay goes with the call after
\* those, the (dryrunCacheLimit + 1)-th.
C12_EarliestGoneAfterLimitPlusOne ==
    (AskedForEarliest /\ FifoCount = DryrunCacheLimit + 1) => ret.val = BoolVal(FALSE)

\* The earliest overlay is gone after dryrunCacheLimit + 1 creations, while
\* the second, which inherited the records of the first, is still there.
C12_Witness ==
    /\ AskedForEarliest /\ FifoCount = DryrunCacheLimit + 1
    /\ ret.val = BoolVal(FALSE)
    /\ HasDryrunCacheRet(FifoOrder[2])

\* ------------------------------------------ eviction by creation (C13) ----

\* The registered non-miner overlays, oldest creation first.
NonMinerCreated == SelectSeq(created, LAMBDA h : h # M1DryrunCacheHash)
\* A step that is an InitDryRunMode call which evicts recentCaches[0].
AutoEvicts == ret'.op = "InitDryRunMode" /\ EvictsOldest

\* C13: whenever InitDryRunMode auto-evicts, the overlay it removes is the
\* registered non-miner overlay that InitDryRunMode created the longest
\* ago, also after a hash was initialized again or dropped and created
\* again, and it is never the overlay of the miner hash.
C13_EvictsOldestCreated ==
    [][AutoEvicts =>
          /\ recentCaches[1] # M1DryrunCacheHash
          /\ NonMinerCreated # <<>> => recentCaches[1] = NonMinerCreated[1]]_vars

\* The same, asked only of the calls whose recentCaches[0] is registered:
\* it takes a list of three hashes (h1, h2, h1 after h1 was initialized
\* again) for the overlay removed to be younger than one that stays.
C13_RegisteredVictimIsOldest ==
    [][(AutoEvicts /\ Registered(recentCaches[1])) =>
          recentCaches[1] = NonMinerCreated[1]]_vars

\* ------------------------------------------ inheritance at init (C19) ----

\* What overlay h holds for key k: whether there is an entry, and its record
\* (NilVal for a tombstone).
HeldFor(caches, hp, h, k) ==
    <<EntryOf(caches, hp, h, k)[1], EntryOf(caches, hp, h, k)[3]>>

\* A step that is the call InitDryRunMode(h, p) with every record of the
\* parent decoding, made when overlay p is registered and holds an entry.
InitFromParent(h, p) ==
    /\ ret'.op = "InitDryRunMode" /\ ret'.hash = h
    /\ HasDryrunCacheRet(p)
    /\ InitDryRunMode(h, p, 0)

\* C19: when overlay P is registered and not empty as InitDryRunMode(H, P) is
\* called, for any H and any length of recentCaches, the call succeeds, H is
\* registered, and H holds for every key what P held at that moment (a
\* tombstone for a tombstone) and nothing for the other keys.
C19_InheritsParent ==
    [][\A h \in IsoHashes, p \in IsoHashes : InitFromParent(h, p) =>
          /\ ret'.err = OK
          /\ h \in DOMAIN dryRunCaches'
          /\ \A k \in Keys :
                HeldFor(dryRunCaches', heap', h, k) = HeldFor(dryRunCaches, heap, p, k)]_vars

\* The same for a parent other than the overlay being initialized.
C19_InheritsOtherParent ==
    [][\A h \in IsoHashes, p \in IsoHashes : (h # p /\ InitFromParent(h, p)) =>
          /\ ret'.err = OK
          /\ h \in DOMAIN dryRunCaches'
          /\ \A k \in Keys :
                HeldFor(dryRunCaches', heap', h, k) = HeldFor(dryRunCaches, heap, p, k)]_vars

\* The same again when the parent is not the overlay the call evicts.
C19_InheritsSurvivingParent ==
    [][\A h \in IsoHashes, p \in IsoHashes :
          (h # p /\ InitFromParent(h, p) /\ ~(EvictsOldest /\ recentCaches[1] = p)) =>
              /\ ret'.err = OK
              /\ h \in DOMAIN dryRunCaches'
              /\ \A k \in Keys :
                    HeldFor(dryRunCaches', heap', h, k) = HeldFor(dryRunCaches, heap, p, k)]_vars

\* --------------------------------- concurrent InitDryRunMode (C14) ----
\* InitDryRunMode takes db.lock three times (inside the two DropDryrunCache
\* calls and around the slice, then for the rest of the call) and reads
\* db.recentCaches at lines 201 and 202 without it: a goroutine is taken
\* through the call one such section at a time.

SetTask(t, pc) == initTask' = [initTask EXCEPT ![t].pc = pc]

\* The call, up to the test of len(db.recentCaches) at line 201.
InitCall(t, blockHash, parent) ==
    /\ initTask[t].pc = "idle"
    /\ initTask' = [initTask EXCEPT ![t] =
           [pc |-> IF Len(recentCaches) >= DryrunCacheLimit THEN "evict" ELSE "drop",
            hash |-> blockHash, parent |-> parent]]
    /\ UNCHANGED <<dbVars, vbVars, created, saveTask, gas>>

\* db.DropDryrunCache(db.recentCaches[0]), line 202.
InitEvict(t) ==
    /\ initTask[t].pc = "evict"
    /\ IF recentCaches = <<>>
       THEN /\ SetTask(t, "panic")
            /\ UNCHANGED <<dryRunCaches, heap, written, created>>
       ELSE /\ SetTask(t, "advance")
            /\ dryRunCaches' = Dropped(dryRunCaches, recentCaches[1])
            /\ heap' = Collect(heap, Dropped(dryRunCaches, recentCaches[1]))
            /\ written' = [written EXCEPT ![recentCaches[1]] = NoWrites]
            /\ created' = SeqWithout(created, recentCaches[1])
    /\ UNCHANGED <<db, cacheItems, recentCaches, ret, vbVars, saveTask, gas>>

\* db.recentCaches = db.recentCaches[1:] under the lock, lines 203-205.
InitAdvance(t) ==
    /\ initTask[t].pc = "advance"
    /\ IF recentCaches = <<>>
       THEN SetTask(t, "panic") /\ UNCHANGED recentCaches
       ELSE SetTask(t, "drop") /\ recentCaches' = Tail(recentCaches)
    /\ UNCHANGED <<db, cacheItems, dryRunCaches, heap, written, ret, created,
                   vbVars, saveTask, gas>>

\* db.DropDryrunCache(blockHashNoValidator), line 211.
InitDropOwn(t) ==
    /\ initTask[t].pc = "drop"
    /\ SetTask(t, "build")
    /\ dryRunCaches' = Dropped(dryRunCaches, initTask[t].hash)
    /\ heap' = Collect(heap, Dropped(dryRunCaches, initTask[t].hash))
    /\ written' = [written EXCEPT ![initTask[t].hash] = NoWrites]
    /\ created' = SeqWithout(created, initTask[t].hash)
    /\ UNCHANGED <<db, cacheItems, recentCaches, ret, vbVars, saveTask, gas>>

\* The rest of the call under the lock, lines 217-282: the records of the
\* parent are cloned, the overlay is registered and its hash appended.
InitBuild(t, failAt) ==
    /\ initTask[t].pc = "build"
    /\ SetTask(t, "idle")
    /\ LET blockHash == initTask[t].hash
           parent == initTask[t].parent
           parentOk == parent \in DOMAIN dryRunCaches /\ Len(dryRunCaches[parent]) > 0
           st0 == [caches |-> dryRunCaches, cache |-> <<>>, heap |-> heap, err |-> OK]
           st == IF parent = ZeroHash THEN st0
                 ELSE IF parentOk
                      THEN InheritLoop(1, LruKeys(dryRunCaches[parent]), parent, blockHash,
                                       failAt, st0)
                 ELSE [st0 EXCEPT !.err = ErrNoParent]
           final == IF st.err = OK THEN WithCache(st.caches, blockHash, st.cache) ELSE st.caches
       IN  /\ IF failAt = 0 THEN TRUE
              ELSE /\ parent # ZeroHash /\ parentOk /\ failAt <= Len(dryRunCaches[parent])
                   /\ dryRunCaches[parent][failAt].val # NilRef
           /\ dryRunCaches' = final
           /\ heap' = Collect(st.heap, final)
           /\ recentCaches' = IF st.err = OK /\ JoinsRecent(blockHash)
                              THEN Append(recentCaches, blockHash) ELSE recentCaches
           /\ written' = IF st.err = OK THEN [written EXCEPT ![blockHash] = NoWrites]
                         ELSE written
           /\ created' = IF st.err = OK THEN Append(SeqWithout(created, blockHash), blockHash)
                         ELSE created
           /\ ret' = Ret("InitDryRunMode", NilKey, TRUE, blockHash, NilVal, st.err)
    /\ UNCHANGED <<db, cacheItems, vbVars, saveTask, gas>>

\* Several validator tasks inside InitDryRunMode at once, with the calls
\* that hold db.lock from their first line to their last.
ConcHashes == {"h1", "h2"}
NextConc ==
    \/ \E t \in Tasks, h \in ConcHashes, p \in {ZeroHash, "h1"} :
           (p = ZeroHash \/ h = "h2") /\ InitCall(t, h, p)
    \/ \E t \in Tasks : InitEvict(t)
    \/ \E t \in Tasks : InitAdvance(t)
    \/ \E t \in Tasks : InitDropOwn(t)
    \/ \E t \in Tasks, f \in 0..CacheLimit : InitBuild(t, f)
    \/ \E v \in IsoVals : PutDryrun(K1, v, "h1")
    \/ \E h \in ConcHashes : DropDryrunCache(h)
    \/ \E h \in ConcHashes : SaveDryRunResult(h, 0)

SpecConc == Init /\ [][NextConc]_vars

\* C14: in every reachable state, in every interleaving of InitDryRunMode,
\* DropDryrunCache and SaveDryRunResult calls made concurrently by several
\* validator tasks, recentCaches holds at most dryrunCacheLimit hashes.
C14_RecentBounded == Len(recentCaches) <= DryrunCacheLimit

\* ------------------------- SaveDryRunResult against direct reads (C20) ----
\* SaveDryRunResult holds db.lock from its first line to its last, which
\* keeps the other calls on overlays out; a direct Get takes no lock (lines
\* 126-153) and runs between any two statements of it.

\* Lines 287-326: the loop over the overlay's keys, which deletes the
\* tombstoned keys from the store and fills the batch.
SaveStage(blockHash, failAt) ==
    /\ saveTask.pc = "idle"
    /\ IF ~Registered(blockHash) \/ Len(dryRunCaches[blockHash]) = 0
       THEN /\ failAt = 0
            /\ ret' = Ret("SaveDryRunResult", NilKey, TRUE, blockHash, NilVal, OK)
            /\ UNCHANGED <<db, dryRunCaches, saveTask>>
       ELSE LET cache == dryRunCaches[blockHash]
                st == SaveLoop(1, LruKeys(cache), failAt,
                               [db |-> db, batch |-> <<>>, cache |-> cache, err |-> OK])
            IN  /\ failAt \in 0..Len(cache)
                /\ dryRunCaches' = [dryRunCaches EXCEPT ![blockHash] = st.cache]
                /\ db' = st.db
                /\ IF st.err # OK
                   THEN /\ ret' = Ret("SaveDryRunResult", NilKey, TRUE, blockHash, NilVal, st.err)
                        /\ UNCHANGED saveTask
                   ELSE /\ saveTask' = [pc |-> "purge", hash |-> blockHash, batch |-> st.batch]
                        /\ UNCHANGED ret
    /\ UNCHANGED <<cacheItems, recentCaches, heap, written, created, initTask, vbVars, gas>>

\* db.cacheItems.Purge(), line 329.
SavePurge ==
    /\ saveTask.pc = "purge"
    /\ cacheItems' = LruPurge
    /\ saveTask' = [saveTask EXCEPT !.pc = "write"]
    /\ UNCHANGED <<db, dryRunCaches, recentCaches, heap, written, ret, created, initTask,
                   vbVars, gas>>

\* return batch.Write(), line 330.
SaveWrite(writeFails) ==
    /\ saveTask.pc = "write"
    /\ db' = IF writeFails THEN db ELSE BatchWrite(db, saveTask.batch)
    /\ ret' = Ret("SaveDryRunResult", NilKey, TRUE, saveTask.hash, NilVal,
                  IF writeFails THEN ErrIo ELSE OK)
    /\ saveTask' = IdleSave
    /\ UNCHANGED <<cacheItems, dryRunCaches, recentCaches, heap, written, created, initTask,
                   vbVars, gas>>

\* A validator task stages writes to one key and saves them, while other
\* tasks read the key directly.
SaveKey == K1
NextSave ==
    \/ saveTask.pc = "idle" /\ InitDryRunMode("h1", ZeroHash, 0)
    \/ saveTask.pc = "idle" /\ \E v \in InVals : PutDryrun(SaveKey, v, "h1")
    \/ saveTask.pc = "idle" /\ DeleteDryrun(SaveKey, "h1")
    \/ saveTask.pc = "idle" /\ \E v \in InVals : PutDirect(SaveKey, v, OK)
    \/ \E v \in ReadVariants : Get(SaveKey, v, FALSE, ZeroHash)
    \/ \E f \in 0..CacheLimit : SaveStage("h1", f)
    \/ SavePurge
    \/ \E writeFails \in BOOLEAN : SaveWrite(writeFails)

SpecSave == Init /\ [][NextSave]_vars

\* The same tasks, the direct reads waiting for a running save to return.
NextSaveAlone ==
    \/ saveTask.pc = "idle" /\ InitDryRunMode("h1", ZeroHash, 0)
    \/ saveTask.pc = "idle" /\ \E v \in InVals : PutDryrun(SaveKey, v, "h1")
    \/ saveTask.pc = "idle" /\ DeleteDryrun(SaveKey, "h1")
    \/ saveTask.pc = "idle" /\ \E v \in InVals : PutDirect(SaveKey, v, OK)
    \/ saveTask.pc = "idle" /\ \E v \in ReadVariants : Get(SaveKey, v, FALSE, ZeroHash)
    \/ \E f \in 0..CacheLimit : SaveStage("h1", f)
    \/ SavePurge
    \/ \E writeFails \in BOOLEAN : SaveWrite(writeFails)

SpecSaveAlone == Init /\ [][NextSaveAlone]_vars

\* C20: the hot cache is purged only after the batch write has succeeded:
\* however direct Gets of other tasks interleave with a running
\* SaveDryRunResult(H), once it has returned OK a direct Get of a key
\* written in H returns what was written in H (not found for a delete),
\* never the value from before the promotion.
C20_NoStaleReadAfterSave ==
    (ret.op = "SaveDryRunResult" /\ ret.err = OK /\ saveTask.pc = "idle") =>
        LET w == written[ret.hash][SaveKey]
        IN  w # NoWrite =>
                \A v \in ReadVariants :
                    LET r == GetRet(SaveKey, v, FALSE, ZeroHash)
                    IN  IF w = NilVal THEN r.err = ErrNotFound
                        ELSE r.err = OK => r.val = w

\* ------------------------------------- registry against recent (C21) ----

\* C21: in every reachable state, in every interleaving of concurrent
\* InitDryRunMode calls, each registered hash other than the miner hash
\* occurs in recentCaches: no such overlay stays registered after its hash
\* has left the list.
C21_RegisteredInRecent ==
    \A h \in DOMAIN dryRunCaches :
        h # M1DryrunCacheHash => \E i \in 1..Len(recentCaches) : recentCaches[i] = h

\* ------------------------------------------ hot-cache coherence (C22) ----

\* C22: the calls being made one at a time, every entry of the hot cache is
\* the decoding of what the store holds for its key, after any direct Put,
\* Delete and Get and any SaveDryRunResult, those that returned an error
\* included.
C22_HotCacheCoherent ==
    \A i \in 1..Len(cacheItems) :
        LET key == HexDecode(cacheItems[i].key)
        IN  /\ db[key] # NoBytes
            /\ DecodeOk(db[key], cacheItems[i].val.variant)
            /\ DecodeBytesItem(db[key], cacheItems[i].val.variant) = cacheItems[i].val

\* The same in the states reached by calls that all returned without error.
C22_CoherentWhileNoCallFailed ==
    [][(C22_HotCacheCoherent /\ ret'.err = OK) => C22_HotCacheCoherent']_vars

=============================================================================
